---- MODULE Spec2Model ----
(***************************************************************************)
(* NFL Sacks Analysis dashboard: the Streamlit script src/__main__.py, the *)
(* memoized loader src/core/data.py and the chart builders of              *)
(* src/core/plots.py.                                                      *)
(*                                                                         *)
(* A DataFrame is a sequence of rows.  A frame derived from df_raw by      *)
(* boolean indexing or sorting keeps pandas' index labels, so df_f, df_o   *)
(* and top10 are sequences of index labels (1-based positions in df_raw);  *)
(* the row behind label i is df_raw[i].                                    *)
(*                                                                         *)
(* Streamlit re-executes the whole script after every widget change: each  *)
(* action below changes one widget and then runs the script to its end     *)
(* (or to the exception that aborts it).                                   *)
(***************************************************************************)
EXTENDS Integers, Sequences, FiniteSets, TLC

VARIABLES
    df_raw,      \* src/__main__.py:31   the loaded table
    season,      \* src/__main__.py:34   selectbox "Temporada"
    phase_sel,   \* src/__main__.py:37   multiselect "Fase"
    all_teams,   \* src/__main__.py:40   checkbox "Todos los equipos"
    team_sel,    \* src/__main__.py:41   all teams, or multiselect "Equipos"
    resultado,   \* src/__main__.py:46   radio "Resultado"
    min_sacks,   \* src/__main__.py:47   slider "Sacks permitidos minimos"
    method,      \* src/__main__.py:53   radio "Metodo correlacion"
    status,      \* how the last run of the script ended
    df_f,        \* src/__main__.py:64
    df_o,        \* src/__main__.py:65
    page,        \* what the last run rendered, chart by chart
    files,       \* the CSV file behind each path
    cache,       \* st.cache_data's store for load_data, keyed by path
    reads,       \* number of pd.read_csv calls per path
    ret,         \* the last call of load_data: its path and the table returned
    first,       \* per path, the table its first call returned
    numeric_cols,\* src/core/plots.py:113  argument of corr_heatmap
    order,       \* src/core/plots.py:127  dendrogram leaf order (0-based)
    shown        \* src/core/plots.py:131  corr.mask(mask): labels of the cells, or NaN

vars == <<df_raw, season, phase_sel, all_teams, team_sel, resultado, min_sacks,
          method, status, df_f, df_o, page, files, cache, reads, ret, first,
          numeric_cols, order, shown>>

appVars == <<df_raw, season, phase_sel, all_teams, team_sel, resultado,
             min_sacks, method, status, df_f, df_o, page>>
loadVars == <<files, cache, reads, ret, first>>
corrVars == <<numeric_cols, order, shown>>

----------------------------------------------------------------------------
(* Bounds of the model *)

MaxRows == 12
MaxSacks == 3

(* Program constants *)

TopN == 10
SliderValue == 0
ReorderAbove == 2

----------------------------------------------------------------------------
(* Generic helpers *)

Range(s) == {s[i] : i \in 1..Len(s)}

Min2(a, b) == IF a <= b THEN a ELSE b

SetMin(S) == CHOOSE x \in S : \A y \in S : x <= y
SetMax(S) == CHOOSE x \in S : \A y \in S : x >= y

----------------------------------------------------------------------------
(* The data *)

Seasons == {2023, 2024}
Phases == {"playoff", "regular"}
\* team codes in sorted order, as sorted() and groupby order them
TeamOrder == <<"BUF", "KC">>
Teams == Range(TeamOrder)
Outcomes == {"win", "loss"}

R(se, ph, t, re, s) ==
    [season |-> se, phase |-> ph, team_abbr |-> t, resultado |-> re,
     sacks_permitidos |-> s]

Rows == {R(se, ph, t, re, s) : se \in Seasons, ph \in Phases, t \in Teams,
                                re \in Outcomes, s \in 0..MaxSacks}

\* a sample of game records; the tables of the model are its contiguous runs
Pool == <<
    R(2024, "regular", "BUF", "loss", 2),
    R(2024, "regular", "KC",  "win",  0),
    R(2024, "regular", "BUF", "loss", 1),
    R(2024, "playoff", "KC",  "loss", 3),
    R(2024, "regular", "KC",  "loss", 1),
    R(2024, "regular", "BUF", "win",  2),
    R(2023, "regular", "KC",  "loss", 2),
    R(2024, "playoff", "BUF", "win",  0),
    R(2024, "regular", "KC",  "loss", 2),
    R(2024, "regular", "BUF", "loss", 3),
    R(2024, "playoff", "KC",  "win",  1),
    R(2024, "regular", "KC",  "win",  3),
    R(2024, "regular", "BUF", "win",  1) >>

Runs == {w \in (1..Len(Pool)) \X (1..Len(Pool)) :
            w[1] <= w[2] /\ w[2] - w[1] + 1 <= MaxRows}

\* every one-row table, and every run of at most MaxRows rows of the sample;
\* the script needs at least one row (int(NaN) raises at line 49 otherwise)
Tables == {<<r>> : r \in Rows} \cup {SubSeq(Pool, w[1], w[2]) : w \in Runs}

Column(df, c) == {df[i][c] : i \in 1..Len(df)}

Labels(df) == [i \in 1..Len(df) |-> i]

----------------------------------------------------------------------------
(* sort_values(ascending=False): pandas sorts descending and leaves ties   *)
(* in their original order; written here as an insertion sort.             *)

\* a.sum / a.count >= b.sum / b.count
MeanGe(a, b) == a.sum * b.count >= b.sum * a.count

\* Series.sort_values(ascending=False) on the per-team means
RECURSIVE InsertMeanDesc(_, _)
InsertMeanDesc(x, s) ==
    IF s = <<>> THEN <<x>>
    ELSE IF MeanGe(Head(s), x) THEN <<Head(s)>> \o InsertMeanDesc(x, Tail(s))
    ELSE <<x>> \o s

RECURSIVE SortMeansUpTo(_, _)
SortMeansUpTo(s, n) ==
    IF n = 0 THEN <<>> ELSE InsertMeanDesc(s[n], SortMeansUpTo(s, n - 1))

SortMeansDesc(s) == SortMeansUpTo(s, Len(s))

\* DataFrame.sort_values("sacks_permitidos", ascending=False) on a frame
RECURSIVE InsertSacksDesc(_, _, _)
InsertSacksDesc(df, x, s) ==
    IF s = <<>> THEN <<x>>
    ELSE IF df[Head(s)].sacks_permitidos >= df[x].sacks_permitidos
         THEN <<Head(s)>> \o InsertSacksDesc(df, x, Tail(s))
    ELSE <<x>> \o s

RECURSIVE SortSacksUpTo(_, _, _)
SortSacksUpTo(df, fr, n) ==
    IF n = 0 THEN <<>>
    ELSE InsertSacksDesc(df, fr[n], SortSacksUpTo(df, fr, n - 1))

SortSacksDesc(df, fr) == SortSacksUpTo(df, fr, Len(fr))

RECURSIVE SumSacks(_, _)
SumSacks(df, fr) ==
    IF fr = <<>> THEN 0
    ELSE df[Head(fr)].sacks_permitidos + SumSacks(df, Tail(fr))

----------------------------------------------------------------------------
(* src/core/plots.py: the chart builders.  A builder gets the table df and *)
(* the frame fr (labels of df) it is to draw, and returns the figure.      *)

\* the restriction to losses left out
LossRowsAll(df, fr) == fr

\* line 27: df[df["resultado"] == "loss"]
LossRows(df, fr) == SelectSeq(fr, LAMBDA i : df[i].resultado = "loss")

\* lines 29-30: groupby("team_abbr")["sacks_permitidos"].mean(): one entry per
\* team that has a row, in sorted team order; the mean is kept as sum / count
RECURSIVE GroupMeans(_, _, _)
GroupMeans(df, fr, k) ==
    IF k > Len(TeamOrder) THEN <<>>
    ELSE LET g == SelectSeq(fr, LAMBDA i : df[i].team_abbr = TeamOrder[k])
         IN (IF g = <<>> THEN <<>>
             ELSE <<[team_abbr |-> TeamOrder[k], sum |-> SumSacks(df, g),
                     count |-> Len(g)]>>)
            \o GroupMeans(df, fr, k + 1)

\* lines 18-41
bar_avg_sacks_losses(df, fr) ==
    [called |-> TRUE, df |-> fr,
     bars |-> SortMeansDesc(GroupMeans(df, LossRows(df, fr), 1))]

\* lines 44-79
scatter_sacks_vs_points(fr, color_col, symbol_col, color_args, trend_scope) ==
    [called |-> TRUE, df |-> fr, color |-> color_col, symbol |-> symbol_col,
     color_args |-> color_args, trendline_scope |-> trend_scope]

\* lines 82-110
box_sacks_distribution(fr, group_by_team) ==
    [called |-> TRUE, df |-> fr,
     x |-> IF group_by_team THEN "team_abbr" ELSE "resultado",
     color |-> "resultado"]

\* lines 146-171
scatter_sacks_vs_margin(fr) ==
    [called |-> TRUE, df |-> fr, color |-> "resultado",
     trendline_scope |-> "overall"]

----------------------------------------------------------------------------
(* src/__main__.py: one run of the script *)

SeasonOptions(df) == Column(df, "season")         \* line 35
PhaseOptions(df) == Column(df, "phase")           \* line 38
TeamOptions(df) == Column(df, "team_abbr")        \* lines 42, 44
ResultadoOptions == {"all", "win", "loss"}        \* line 46
MethodOptions == {"pearson", "spearman", "kendall"}  \* line 54
SliderLo(df) == SetMin(Column(df, "sacks_permitidos"))   \* line 49
SliderHi(df) == SetMax(Column(df, "sacks_permitidos"))   \* line 50

\* lines 47-52: st.slider raises when its value argument is outside
\* [min_value, max_value], and the exception ends the run
SliderAccepts(df) == SliderLo(df) <= SliderValue /\ SliderValue <= SliderHi(df)

\* line 61: team_sel if team_sel else df_raw["team_abbr"]
TeamArg(df, ts) == IF ts # {} THEN ts ELSE Column(df, "team_abbr")

\* the threshold taken as exclusive
MaskStrict(df, se, ph, ts, ms) ==
    [i \in 1..Len(df) |->
        /\ df[i].season = se
        /\ df[i].phase \in ph
        /\ df[i].team_abbr \in TeamArg(df, ts)
        /\ df[i].sacks_permitidos > ms]

\* lines 58-63
Mask(df, se, ph, ts, ms) ==
    [i \in 1..Len(df) |->
        /\ df[i].season = se
        /\ df[i].phase \in ph
        /\ df[i].team_abbr \in TeamArg(df, ts)
        /\ df[i].sacks_permitidos >= ms]

\* line 64: df_raw[mask].copy()
FilterPrimary(df, se, ph, ts, ms) ==
    LET mask == Mask(df, se, ph, ts, ms)
    IN SelectSeq(Labels(df), LAMBDA i : mask[i])

\* "all" compared like any other outcome
FilterOutcomeNoAll(df, f, re) == SelectSeq(f, LAMBDA i : df[i].resultado = re)

\* line 65
FilterOutcome(df, f, re) ==
    IF re = "all" THEN f ELSE SelectSeq(f, LAMBDA i : df[i].resultado = re)

\* lines 81, 109: all_teams or len(team_sel) > 1
ByTeam(at, ts) == at \/ Cardinality(ts) > 1

NoFig == [called |-> FALSE]

\* chart 1 built from the outcome-filtered frame
Fig1InputOutcome(f, o) == o

\* line 76: the frame chart 1 is built from
Fig1Input(f, o) == f

\* lines 79-104
Chart2(o, at, ts) ==
    IF o # <<>>
    THEN IF ByTeam(at, ts)
         THEN scatter_sacks_vs_points(o, "team_abbr", "phase", "sequence", "overall")
         ELSE scatter_sacks_vs_points(o, "phase", "resultado", "map", "trace")
    ELSE NoFig

\* lines 107-111
Chart3(o, at, ts) == box_sacks_distribution(o, ByTeam(at, ts))

\* lines 113-115: the call of corr_heatmap (its body is modelled below)
Chart4(f, o, me) ==
    [called |-> TRUE, df |-> f, method |-> me,
     numeric_cols |-> <<"sacks_permitidos", "pct_sacks", "margin", "puntos_anotados">>]

\* the sort left out
Top10Unsorted(df, f, o) == SubSeq(f, 1, Min2(TopN, Len(f)))

\* line 119
Top10(df, f, o) ==
    LET sorted == SortSacksDesc(df, f)
    IN SubSeq(sorted, 1, Min2(TopN, Len(sorted)))

\* lines 135-136
Chart6(o) == scatter_sacks_vs_margin(o)

BlankPage ==
    [fig1 |-> NoFig, fig2 |-> NoFig, info2 |-> FALSE, fig3 |-> NoFig,
     fig4 |-> NoFig, top10 |-> <<>>, fig6 |-> NoFig]

\* lines 31-136: what one run of the script computes and renders
Run(df, se, ph, at, ts, re, ms, me) ==
    IF ~SliderAccepts(df)
    THEN [status |-> "slider_error", df_f |-> <<>>, df_o |-> <<>>,
          page |-> BlankPage]
    ELSE LET f == FilterPrimary(df, se, ph, ts, ms)
             o == FilterOutcome(df, f, re)
         IN [status |-> "done", df_f |-> f, df_o |-> o,
             page |-> [fig1 |-> bar_avg_sacks_losses(df, Fig1Input(f, o)),
                       fig2 |-> Chart2(o, at, ts),
                       info2 |-> (o = <<>>),
                       fig3 |-> Chart3(o, at, ts),
                       fig4 |-> Chart4(f, o, me),
                       top10 |-> Top10(df, f, o),
                       fig6 |-> Chart6(o)]]

Script(se, ph, at, ts, re, ms, me) ==
    \E r \in {Run(df_raw, se, ph, at, ts, re, ms, me)} :
       /\ season' = se
       /\ phase_sel' = ph
       /\ all_teams' = at
       /\ team_sel' = ts
       /\ resultado' = re
       /\ min_sacks' = ms
       /\ method' = me
       /\ status' = r.status
       /\ df_f' = r.df_f
       /\ df_o' = r.df_o
       /\ page' = r.page
       /\ UNCHANGED <<df_raw, loadVars, corrVars>>

(* The user changes one widget; Streamlit runs the script again. *)

SetSeason ==
    \E s \in SeasonOptions(df_raw) :
        /\ s # season
        /\ Script(s, phase_sel, all_teams, team_sel, resultado, min_sacks, method)

SetPhases ==
    \E P \in SUBSET PhaseOptions(df_raw) :
        /\ P # phase_sel
        /\ Script(season, P, all_teams, team_sel, resultado, min_sacks, method)

\* lines 40-45: with the box ticked team_sel is every team; with it unticked
\* the multiselect is created anew, with no default, so nothing is selected
ToggleAllTeams ==
    LET at == ~all_teams
    IN Script(season, phase_sel, at, IF at THEN TeamOptions(df_raw) ELSE {},
              resultado, min_sacks, method)

\* line 44: the multiselect exists only while the box is unticked
SetTeams ==
    /\ ~all_teams
    /\ \E S \in SUBSET TeamOptions(df_raw) :
        /\ S # team_sel
        /\ Script(season, phase_sel, all_teams, S, resultado, min_sacks, method)

SetResultado ==
    \E r \in ResultadoOptions :
        /\ r # resultado
        /\ Script(season, phase_sel, all_teams, team_sel, r, min_sacks, method)

\* the slider and the method radio exist only in a run that got past line 47
SetMinSacks ==
    /\ status = "done"
    /\ \E m \in SliderLo(df_raw)..SliderHi(df_raw) :
        /\ m # min_sacks
        /\ Script(season, phase_sel, all_teams, team_sel, resultado, m, method)

SetMethod ==
    /\ status = "done"
    /\ \E m \in MethodOptions :
        /\ m # method
        /\ Script(season, phase_sel, all_teams, team_sel, resultado, min_sacks, m)

NextApp ==
    \/ SetSeason
    \/ SetPhases
    \/ ToggleAllTeams
    \/ SetTeams
    \/ SetResultado
    \/ SetMinSacks
    \/ SetMethod

----------------------------------------------------------------------------
(* src/core/data.py: load_data under st.cache_data *)

Paths == {"a.csv", "b.csv"}

D(y, m, d) == [y |-> y, m |-> m, d |-> d]

\* a Sunday in September, a Monday that opens ISO week 1 of the next year,
\* a Sunday that closes ISO week 53 of the year before
Dates == {D(2024, 9, 8), D(2024, 12, 30), D(2027, 1, 3)}

\* what a file that carries loc_vi itself may say
FileLocVi == "Neutral"

MaxFileRows == 1

OptionalColumns == {"week", "loc_vi"}

FileRow(cols, f, h) ==
    [c \in {"fecha", "is_home"} \cup cols |->
        CASE c = "fecha" -> f
          [] c = "is_home" -> h
          [] c = "week" -> 18      \* the file's own week: the NFL week
          [] c = "loc_vi" -> FileLocVi]

RECURSIVE SeqsUpTo(_, _)
SeqsUpTo(S, n) ==
    IF n = 0 THEN {<<>>}
    ELSE LET shorter == SeqsUpTo(S, n - 1)
         IN shorter \cup {Append(s, x) : s \in shorter, x \in S}

\* a CSV file with the columns of the input interface: fecha and is_home
\* always, week and loc_vi optionally
Files ==
    UNION {{[columns |-> {"fecha", "is_home"} \cup cols, rows |-> rs] :
              rs \in SeqsUpTo({FileRow(cols, f, h) : f \in Dates, h \in BOOLEAN},
                              MaxFileRows) \ {<<>>}} :
           cols \in SUBSET OptionalColumns}

(* Series.dt.isocalendar().week: the ISO 8601 week number of a date *)

IsLeap(y) == (y % 4 = 0 /\ y % 100 # 0) \/ y % 400 = 0

DaysBeforeMonth == <<0, 31, 59, 90, 120, 151, 181, 212, 243, 273, 304, 334>>

DayOfYear(dt) ==
    DaysBeforeMonth[dt.m] + dt.d + (IF dt.m > 2 /\ IsLeap(dt.y) THEN 1 ELSE 0)

\* days since 0001-01-01, which is day 1 and a Monday
Ordinal(dt) ==
    LET p == dt.y - 1
    IN 365 * p + (p \div 4) - (p \div 100) + (p \div 400) + DayOfYear(dt)

\* Monday 1 .. Sunday 7
IsoWeekday(dt) == ((Ordinal(dt) + 6) % 7) + 1

WeeksInYear(y) ==
    LET jan1 == IsoWeekday(D(y, 1, 1))
    IN IF jan1 = 4 \/ (jan1 = 3 /\ IsLeap(y)) THEN 53 ELSE 52

IsoWeek(dt) ==
    LET w == (DayOfYear(dt) - IsoWeekday(dt) + 10) \div 7
    IN IF w < 1 THEN WeeksInYear(dt.y - 1)
       ELSE IF w > WeeksInYear(dt.y) THEN 1
       ELSE w

\* data.py line 11
NeedsWeek(cols) == "week" \notin cols

\* data.py line 13
NeedsLocVi(cols) == "loc_vi" \notin cols

\* data.py line 14: map({True: "Casa", False: "Visitante"})
LocViOf(h) == IF h THEN "Casa" ELSE "Visitante"

AddColumn(row, c, v) == [k \in DOMAIN row \cup {c} |-> IF k = c THEN v ELSE row[k]]

\* data.py lines 10-15: the body of load_data on the file read
LoadBody(file) ==
    LET w == NeedsWeek(file.columns)
        l == NeedsLocVi(file.columns)
        withWeek(r) == IF w THEN AddColumn(r, "week", IsoWeek(r.fecha)) ELSE r
        withLoc(r) == IF l THEN AddColumn(r, "loc_vi", LocViOf(r.is_home)) ELSE r
    IN [columns |-> file.columns \cup (IF w THEN {"week"} ELSE {})
                                 \cup (IF l THEN {"loc_vi"} ELSE {}),
        rows |-> [i \in 1..Len(file.rows) |-> withLoc(withWeek(file.rows[i]))]]

\* the memo looked up under another key than the path
CacheHitNever(c, p) == FALSE

\* data.py line 7: st.cache_data keys the stored result by the argument
CacheHit(c, p) == p \in DOMAIN c

Remember(f, p, v) == IF p \in DOMAIN f THEN f ELSE f @@ (p :> v)

\* a call answered from the cache: the body does not run
LoadCached(p) ==
    /\ CacheHit(cache, p)
    /\ ret' = [path |-> p, table |-> cache[p], hit |-> TRUE]
    /\ first' = Remember(first, p, cache[p])
    /\ UNCHANGED <<files, cache, reads, appVars, corrVars>>

\* a call that runs the body: the file is read, the result stored
LoadFresh(p) ==
    /\ ~CacheHit(cache, p)
    /\ LET df == LoadBody(files[p])
       IN /\ reads' = [reads EXCEPT ![p] = @ + 1]
          /\ cache' = [q \in DOMAIN cache \cup {p} |-> IF q = p THEN df ELSE cache[q]]
          /\ ret' = [path |-> p, table |-> df, hit |-> FALSE]
          /\ first' = Remember(first, p, df)
    /\ UNCHANGED <<files, appVars, corrVars>>

NextLoad ==
    \/ \E p \in Paths : LoadCached(p)
    \/ \E p \in Paths : LoadFresh(p)

----------------------------------------------------------------------------
(* src/core/plots.py lines 113-143: corr_heatmap *)

NumCols == {"sacks_permitidos", "pct_sacks", "margin", "puntos_anotados"}

NaN == "NaN"

\* the lists of distinct columns a caller can pass
ColumnLists ==
    {s \in SeqsUpTo(NumCols, Cardinality(NumCols)) :
        s # <<>> /\ Cardinality(Range(s)) = Len(s)}

\* the orders a dendrogram can give: its leaves are a permutation of 0..n-1
LeafOrders(n) ==
    {o \in [1..n -> 0..(n - 1)] : \A i, j \in 1..n : o[i] = o[j] => i = j}

Identity(n) == [i \in 1..n |-> i - 1]

\* line 124: the correlation matrix; the cell of row a and column b holds
\* the correlation of that pair of columns, written <<a, b>>
Corr(cols) == [i \in 1..Len(cols) |-> [j \in 1..Len(cols) |-> <<cols[i], cols[j]>>]]

\* line 128: corr.iloc[order, order]
Reorder(m, o) == [i \in 1..Len(o) |-> [j \in 1..Len(o) |-> m[o[i] + 1][o[j] + 1]]]

\* the diagonal left out of the mask
TriuAboveDiagonal(n) == [i \in 1..n |-> [j \in 1..n |-> j > i]]

\* line 129: np.triu(np.ones_like(corr, dtype=bool))
Triu(n) == [i \in 1..n |-> [j \in 1..n |-> j >= i]]

\* line 131: corr.mask(mask)
Masked(m, mask) ==
    [i \in 1..Len(m) |-> [j \in 1..Len(m) |-> IF mask[i][j] THEN NaN ELSE m[i][j]]]

\* lines 125-128 with more than two columns
CorrHeatmapReordered ==
    \E cols \in ColumnLists :
        /\ Len(cols) > ReorderAbove
        /\ \E o \in LeafOrders(Len(cols)) :
            /\ numeric_cols' = cols
            /\ order' = o
            /\ shown' = Masked(Reorder(Corr(cols), o), Triu(Len(cols)))
        /\ UNCHANGED <<appVars, loadVars>>

\* line 125 false: the matrix is masked as computed
CorrHeatmapAsIs ==
    \E cols \in ColumnLists :
        /\ ~(Len(cols) > ReorderAbove)
        /\ numeric_cols' = cols
        /\ order' = Identity(Len(cols))
        /\ shown' = Masked(Corr(cols), Triu(Len(cols)))
        /\ UNCHANGED <<appVars, loadVars>>

NextCorr == CorrHeatmapReordered \/ CorrHeatmapAsIs

----------------------------------------------------------------------------
(* The specifications *)

\* The dashboard.  The first run of the script, on any of the tables, with the
\* widgets at their first values: the first option of a selectbox or radio,
\* the default of a multiselect, value=True of the checkbox, 0 of the slider.
Init ==
    /\ df_raw \in Tables
    /\ season = SetMax(SeasonOptions(df_raw))
    /\ phase_sel = PhaseOptions(df_raw)
    /\ all_teams = TRUE
    /\ team_sel = TeamOptions(df_raw)
    /\ resultado = "all"
    /\ min_sacks = SliderValue
    /\ method = "pearson"
    /\ \E r \in {Run(df_raw, season, phase_sel, all_teams, team_sel, resultado,
                     min_sacks, method)} :
          /\ status = r.status
          /\ df_f = r.df_f
          /\ df_o = r.df_o
          /\ page = r.page
    /\ files = <<>> /\ cache = <<>> /\ reads = <<>> /\ ret = <<>> /\ first = <<>>
    /\ numeric_cols = <<>> /\ order = <<>> /\ shown = <<>>

Next == NextApp

Spec == Init /\ [][Next]_vars

\* Calls of load_data, on any files behind the paths, nothing cached yet.
InitLoad ==
    /\ files \in [Paths -> Files]
    /\ cache = <<>>
    /\ reads = [p \in Paths |-> 0]
    /\ ret = <<>>
    /\ first = <<>>
    /\ df_raw = <<>> /\ season = 0 /\ phase_sel = {} /\ all_teams = TRUE
    /\ team_sel = {} /\ resultado = "all" /\ min_sacks = SliderValue
    /\ method = "pearson" /\ status = "idle" /\ df_f = <<>> /\ df_o = <<>>
    /\ page = BlankPage
    /\ numeric_cols = <<>> /\ order = <<>> /\ shown = <<>>

SpecLoad == InitLoad /\ [][NextLoad]_vars

\* Calls of corr_heatmap.
InitCorr ==
    /\ numeric_cols = <<>> /\ order = <<>> /\ shown = <<>>
    /\ df_raw = <<>> /\ season = 0 /\ phase_sel = {} /\ all_teams = TRUE
    /\ team_sel = {} /\ resultado = "all" /\ min_sacks = SliderValue
    /\ method = "pearson" /\ status = "idle" /\ df_f = <<>> /\ df_o = <<>>
    /\ page = BlankPage
    /\ files = <<>> /\ cache = <<>> /\ reads = <<>> /\ ret = <<>> /\ first = <<>>

SpecCorr == InitCorr /\ [][NextCorr]_vars

----------------------------------------------------------------------------
(* Claims about the filter stages and the page (specification Spec) *)

Increasing(s) == \A i, j \in 1..Len(s) : i < j => s[i] < s[j]

Done == status = "done"

\* the four predicates as the claim words them: the team predicate is
\* dropped by the all-teams flag and by nothing else
QualifiesFlagOnly(i) ==
    /\ df_raw[i].season = season
    /\ df_raw[i].phase \in phase_sel
    /\ (all_teams \/ df_raw[i].team_abbr \in team_sel)
    /\ df_raw[i].sacks_permitidos >= min_sacks

\* the same, with the team predicate dropped for an empty selection too
QualifiesOrEmpty(i) ==
    /\ df_raw[i].season = season
    /\ df_raw[i].phase \in phase_sel
    /\ (all_teams \/ team_sel = {} \/ df_raw[i].team_abbr \in team_sel)
    /\ df_raw[i].sacks_permitidos >= min_sacks

\* C1 as stated: df_f holds exactly the rows of df_raw that satisfy season,
\* phase, team (bypassed only by the all-teams flag) and minimum sacks, in
\* their original order.
C1_FilterExactFlagOnly ==
    Done => /\ \A i \in 1..Len(df_raw) : (i \in Range(df_f)) <=> QualifiesFlagOnly(i)
            /\ Increasing(df_f)

\* C1 amended: df_f holds exactly the rows of df_raw that satisfy season,
\* phase, team and minimum sacks, in their original order, where the team
\* predicate is bypassed by the all-teams flag and also by an empty team
\* selection; an empty phase selection gives an empty df_f.
C1_FilterExact ==
    Done => /\ \A i \in 1..Len(df_raw) : (i \in Range(df_f)) <=> QualifiesOrEmpty(i)
            /\ Increasing(df_f)
            /\ (phase_sel = {} => df_f = <<>>)

C1_Witness ==
    /\ Done /\ ~all_teams /\ team_sel = {}
    /\ Len(df_f) >= 2 /\ Len(df_f) < Len(df_raw)
    /\ Cardinality({df_raw[i].team_abbr : i \in Range(df_f)}) = 2
    /\ min_sacks > 0

\* C2: whenever df_o is empty, none of the builders of charts 2, 3 and 6 is
\* invoked in that run, and the "no data" notice is shown instead.
C2_NoBuilderOnEmpty ==
    (Done /\ df_o = <<>>) =>
        /\ ~page.fig2.called /\ page.info2
        /\ ~page.fig3.called
        /\ ~page.fig6.called

\* C3: with outcome "all" df_o is df_f; with "win" or "loss" df_o holds
\* exactly the rows of df_f with that resultado, in the same order; df_o is
\* always a part of df_f, and the run completes when df_o is empty.
C3_OutcomeStage ==
    Done => /\ resultado = "all" => df_o = df_f
            /\ resultado # "all" =>
                   \A i \in Range(df_f) :
                       (i \in Range(df_o)) <=> df_raw[i].resultado = resultado
            /\ Range(df_o) \subseteq Range(df_f)
            /\ Increasing(df_o)

C3_Witness ==
    /\ Done /\ resultado = "loss"
    /\ Len(df_o) >= 2 /\ Len(df_o) < Len(df_f)

C3_WitnessAll == Done /\ resultado = "all" /\ Len(df_o) >= 2

RECURSIVE SetSumSacks(_)
SetSumSacks(S) ==
    IF S = {} THEN 0
    ELSE LET i == CHOOSE x \in S : TRUE
         IN df_raw[i].sacks_permitidos + SetSumSacks(S \ {i})

LossLabels(t) ==
    {i \in Range(df_f) : df_raw[i].team_abbr = t /\ df_raw[i].resultado = "loss"}

\* C5: chart 1 has exactly one bar per team with a loss row in its input and
\* none for the other teams; a bar's value is the mean of sacks_permitidos
\* over that team's loss rows; the bars are in descending order of value.
C5_BarsPerLossTeam ==
    Done =>
        LET bars == page.fig1.bars
        IN /\ {bars[k].team_abbr : k \in 1..Len(bars)}
                 = {t \in Teams : LossLabels(t) # {}}
           /\ Len(bars) = Cardinality({t \in Teams : LossLabels(t) # {}})
           /\ \A k \in 1..Len(bars) :
                 /\ bars[k].count > 0
                 /\ bars[k].sum * Cardinality(LossLabels(bars[k].team_abbr))
                      = bars[k].count * SetSumSacks(LossLabels(bars[k].team_abbr))
           /\ \A k \in 1..(Len(bars) - 1) :
                 bars[k].sum * bars[k + 1].count >= bars[k + 1].sum * bars[k].count

C5_Witness ==
    /\ Done
    /\ Len(page.fig1.bars) = 2
    /\ page.fig1.bars[1].team_abbr = "KC"
    /\ page.fig1.bars[1].count >= 2
    /\ page.fig1.bars[1].sum * page.fig1.bars[2].count
         > page.fig1.bars[2].sum * page.fig1.bars[1].count
    /\ \E i \in Range(df_f) :
          df_raw[i].team_abbr = "KC" /\ df_raw[i].resultado = "win"

\* C6: the top-10 table has min(10, n) rows of df_f (n its length), each
\* once, in descending order of sacks_permitidos, and no row left out has
\* more sacks than a row kept; it is built from df_f, not from df_o.
C6_Top10 ==
    Done =>
        LET top == page.top10
        IN /\ Len(top) = Min2(TopN, Len(df_f))
           /\ Range(top) \subseteq Range(df_f)
           /\ Cardinality(Range(top)) = Len(top)
           /\ \A k \in 1..(Len(top) - 1) :
                 df_raw[top[k]].sacks_permitidos >= df_raw[top[k + 1]].sacks_permitidos
           /\ \A i \in Range(df_f) \ Range(top) : \A j \in Range(top) :
                 df_raw[i].sacks_permitidos <= df_raw[j].sacks_permitidos

C6_Witness ==
    /\ Done
    /\ Len(df_f) > TopN /\ Len(page.top10) = TopN
    /\ Len(df_o) < Len(df_f)
    /\ Range(page.top10) \ Range(df_o) # {}
    /\ \E k \in 1..(TopN - 1) : page.top10[k] > page.top10[k + 1]

\* C8: a change of the outcome selector alone leaves charts 1, 4 and 5 as
\* they were, and every completed run builds them from df_f, also when df_o
\* is empty.
C8_PrimaryOnly ==
    [][(Done /\ resultado' # resultado) =>
          /\ page'.fig1 = page.fig1
          /\ page'.fig4 = page.fig4
          /\ page'.top10 = page.top10
          /\ page'.fig1.called /\ page'.fig1.df = df_f'
          /\ page'.fig4.called /\ page'.fig4.df = df_f'
          /\ df_f' = df_f]_vars

C8_Witness ==
    /\ Done /\ resultado = "win"
    /\ df_o = <<>> /\ Len(df_f) >= 2
    /\ page.fig1.called /\ page.fig1.bars # <<>>
    /\ page.fig4.called /\ page.fig4.df = df_f
    /\ Len(page.top10) = Len(df_f)

\* the teams whose rows the team predicate of the mask lets through
TeamsAdmitted == {t \in Column(df_raw, "team_abbr") : t \in TeamArg(df_raw, team_sel)}

\* C9: whenever the team predicate admits more than one team (the flag is
\* set, several teams are selected, or the predicate is bypassed) charts 2
\* and 3 are in by-team mode; the per-phase scatter with per-trace trend
\* lines and the outcome-only box plot appear only when the flag is unset
\* and the predicate admits a single team.
C9_ModeAgreesWithFilter ==
    Done =>
        LET several == \/ all_teams
                       \/ Cardinality(team_sel) > 1
                       \/ Cardinality(TeamsAdmitted) > 1
            single == ~all_teams /\ Cardinality(TeamsAdmitted) <= 1
        IN /\ several =>
                 /\ page.fig3.x = "team_abbr"
                 /\ page.fig2.called => /\ page.fig2.color = "team_abbr"
                                         /\ page.fig2.trendline_scope = "overall"
           /\ page.fig3.x = "resultado" => single
           /\ (page.fig2.called /\ page.fig2.color = "phase") => single

\* C10: the slider's initial value 0 lies within its bounds
\* [min(sacks_permitidos), max(sacks_permitidos)], so the run gets past the
\* slider, and the initial threshold excludes no row.
C10_SliderInitValid ==
    /\ SliderLo(df_raw) <= SliderValue /\ SliderValue <= SliderHi(df_raw)
    /\ status # "slider_error"
    /\ \A i \in 1..Len(df_raw) : df_raw[i].sacks_permitidos >= SliderValue

----------------------------------------------------------------------------
(* Claims about load_data (specification SpecLoad) *)

\* C4: after any sequence of calls, the file of a path has been read at most
\* once; a call returns the very table the first call with its path
\* returned; week and loc_vi are added only when the file lacks them, week
\* as the ISO week of fecha and loc_vi as Casa / Visitante for is_home true /
\* false; a column the file carries is returned as the file gives it.
C4_LoadMemoized ==
    /\ \A p \in Paths : reads[p] <= 1
    /\ \A p \in DOMAIN first : reads[p] = 1
    /\ ret # <<>> =>
          LET file == files[ret.path]
              t == ret.table
          IN /\ t = first[ret.path]
             /\ t.columns = file.columns \cup OptionalColumns
             /\ Len(t.rows) = Len(file.rows)
             /\ \A i \in 1..Len(t.rows) :
                   /\ DOMAIN t.rows[i] = t.columns
                   /\ \A c \in file.columns : t.rows[i][c] = file.rows[i][c]
                   /\ "week" \notin file.columns =>
                         /\ t.rows[i].week \in 1..53
                         /\ (file.rows[i].fecha = D(2024, 9, 8) => t.rows[i].week = 36)
                         /\ (file.rows[i].fecha = D(2024, 12, 30) => t.rows[i].week = 1)
                         /\ (file.rows[i].fecha = D(2027, 1, 3) => t.rows[i].week = 53)
                   /\ "loc_vi" \notin file.columns =>
                         t.rows[i].loc_vi = IF file.rows[i].is_home THEN "Casa"
                                            ELSE "Visitante"

C4_Witness ==
    /\ ret # <<>> /\ ret.hit /\ ret.path = "a.csv"
    /\ DOMAIN cache = Paths
    /\ files["a.csv"].columns = {"fecha", "is_home", "loc_vi"}
    /\ files["b.csv"].columns = {"fecha", "is_home"}
    /\ ret.table.rows[1].week = 1
    /\ ret.table.rows[1].loc_vi = FileLocVi
    /\ first["b.csv"].rows[1].loc_vi = "Visitante"

----------------------------------------------------------------------------
(* Claims about corr_heatmap (specification SpecCorr) *)

\* C7: the cells shown are exactly those strictly below the diagonal of the
\* matrix: the diagonal and everything above it are masked, nothing below
\* is; rows and columns carry one and the same permutation of the columns
\* given, and with fewer than three columns the order given is kept.
C7_LowerTriangle ==
    numeric_cols # <<>> =>
        LET n == Len(numeric_cols)
        IN /\ DOMAIN shown = 1..n
           /\ {order[i] : i \in 1..n} = 0..(n - 1)
           /\ \A i, j \in 1..n :
                 /\ (shown[i][j] = NaN) <=> (j >= i)
                 /\ j < i => shown[i][j] = <<numeric_cols[order[i] + 1],
                                             numeric_cols[order[j] + 1]>>
           /\ n < 3 => \A i \in 1..n : order[i] = i - 1

C7_Witness ==
    /\ Len(numeric_cols) = 4
    /\ order = <<2, 0, 3, 1>>
    /\ shown[2][1] = <<numeric_cols[1], numeric_cols[3]>>
    /\ shown[1][2] = NaN /\ shown[3][3] = NaN

C7_WitnessTwo ==
    /\ Len(numeric_cols) = 2
    /\ shown[2][1] = <<numeric_cols[2], numeric_cols[1]>>
    /\ shown[1][1] = NaN /\ shown[1][2] = NaN /\ shown[2][2] = NaN

====
